---- MODULE Spec2Model ----
(***************************************************************************)
(* A model of the three programs the blog posts of this repository carry:  *)
(*   - createStore and combineReducers of "Simplifying Redux"              *)
(*     (src/src/blog-posts/redux.md),                                      *)
(*   - checkJobStatus and startPollingSaga of the redux-saga case study    *)
(*     (src/unnamed/part_000),                                             *)
(*   - the origin request and origin response Lambda@Edge handlers         *)
(*     (src/gatsby-config.js).                                             *)
(* Each program has its own specification (SpecStore, SpecCombine,         *)
(* SpecSaga, SpecEdge); the variables of the other programs stay at their  *)
(* initial values.                                                         *)
(***************************************************************************)
EXTENDS Integers, Sequences, FiniteSets

(* ---------------------------------------------------------------- bounds *)
\* store states are the integers 0 .. NumStates-1
NumStates == 3
\* dispatched actions are the integers 1 .. NumActions
NumActions == 2
\* at most MaxMiddlewares middlewares are given to createStore
MaxMiddlewares == 2
\* at most MaxSubscribes calls of subscribe are made on one store
MaxSubscribes == 2
\* combineReducers is given at most MaxReducers reducers, under the keys 1, 2, ...
MaxReducers == 2
\* a slice of the combined state is one of the references 1 .. MaxRef, or undefined
MaxRef == 2
\* the clock of the polling saga ticks TicksPerDelay times in one polling delay
TicksPerDelay == 2
\* the clock is followed for ExtraTicks ticks after the race's timeout
ExtraTicks == 3
\* a request uri has at most MaxUriLen characters
MaxUriLen == 4

VARIABLES
  \* ---- createStore (redux.md 207-243)
  reducer,        \* the reducer given to createStore (one of ReducerKinds)
  initialState,   \* the initialState given to createStore
  middlewares,    \* the middlewares array: the behaviour of each action function
  state,          \* let state
  listeners,      \* const listeners = []
  nextOf,         \* nextOf[i]: the `next` that middleware i was composed with
  finalMiddleware,\* let finalMiddleware, after the composition loop
  unsubs,         \* unsubs[h]: the listener the h-th unsubscribe closure captured
  called,         \* the unsubscribe closures that have been called at least once
  pc,             \* position of the running dispatch: idle, mw, reducer, notify
  cur,            \* the chain function about to be entered (0 = the reducer step)
  action,         \* the action of the running (or last) dispatch
  s0,             \* the state when the running (or last) dispatch was called
  staleAtStart,   \* the listeners an unsubscribe closure of which had been called
                  \* when the running (or last) dispatch was called
  entered,        \* the middlewares entered by the running (or last) dispatch
  reducerCalls,   \* the reducer evaluations of the running (or last) dispatch
  notified,       \* the listeners invoked by the running (or last) dispatch
  k,              \* forEach: the index of the next element visited
  len0,           \* forEach: the length of listeners when the loop started
  inListener,     \* a listener callback of the notification loop is running
  ret,            \* what the last dispatch returned: << >> undefined, <<s>> a state
  dispatched,     \* some dispatch has been called
  lastUnsub,      \* the unsubscribe closure the last step called (0: none)
  snapshot,       \* the listeners array as the last reducer step left it
  setupPc,        \* createStore: map (calling middleware(middlewareAPI) for
                  \* each middleware), compose (the loop), ready (returned)
  setupIdx,       \* map: the middlewares called so far; compose: the loop's i
  \* ---- combineReducers (redux.md 272-286)
  reducers,       \* the reducers object: key -> the behaviour of its reducer
  crState,        \* the state object the combined reducer is called with next
  crPrev,         \* the state object the last call received
  crAction,       \* the action the last call received
  crGiven,        \* crGiven[key]: what the last call passed to reducers[key]
  crGot,          \* crGot[key]: what reducers[key] returned in the last call
  crCalls,        \* crCalls[key]: the calls of reducers[key] made by the last call
  crCalled,       \* the combined reducer has been called
  \* ---- startPollingSaga and checkJobStatus (part_000 17-38, 64-76)
  now,            \* the clock, in ticks
  sagaPc,         \* startPollingSaga: idle (not started), race, done
  cjsPc,          \* checkJobStatus: idle, take, delay, done, cancelled
  jobSucceeded,   \* let jobSucceeded
  pollDue,        \* when the running call(delay, 1000) resolves (0: none)
  timeoutDue,     \* when the race's call(delay, 60000) resolves
  timeoutActive,  \* the race's call(delay, 60000) is running
  raceResult,     \* what the race effect gave: branch -> its result
  winner,         \* the branch of the race that completed first (none: "")
  lastTaken,      \* the status of the response the last step took (none: "")
  lastPuts,       \* the actions the last step put, with the saga that put each
  sinceRequest,   \* the ticks since checkJobStatus put its last
                  \* POLLING_ACTION_REQUEST, counted up to the poll delay
  takenSince,     \* the responses checkJobStatus has taken since that put
  \* ---- the Lambda@Edge handlers (gatsby-config.js 129-141, 150-216)
  edgeCalled,     \* the handler that ran last: none, request, response
  eventUri,       \* event.Records[0].cf.request.uri of the last event
  eventHeaders,   \* event.Records[0].cf.response.headers of the last event
  requestOut,     \* the uri of the request the request handler gave to callback
  responseOut     \* the headers of the response the response handler gave to callback

storeVars == <<reducer, initialState, middlewares, state, listeners, nextOf,
               finalMiddleware, unsubs, called, pc, cur, action, s0,
               staleAtStart, entered, reducerCalls, notified, k, len0,
               inListener, ret, dispatched>>

storeLog == <<lastUnsub, snapshot>>

setupVars == <<setupPc, setupIdx>>

combineVars == <<reducers, crState, crPrev, crAction, crGiven, crGot, crCalls,
                 crCalled>>

sagaVars == <<now, sagaPc, cjsPc, jobSucceeded, pollDue, timeoutDue,
              timeoutActive, raceResult, winner, lastTaken, lastPuts>>

sagaLog == <<sinceRequest, takenSince>>

edgeVars == <<edgeCalled, eventUri, eventHeaders, requestOut, responseOut>>

vars == <<storeVars, storeLog, setupVars, combineVars, sagaVars, sagaLog, edgeVars>>

(* ------------------------------------------------------------ createStore *)
States == 0 .. (NumStates - 1)
Actions == 1 .. NumActions
Listeners == {"l1", "l2"}
\* the reducers a store is created with: s + a, a, s
ReducerKinds == {"add", "set", "same"}
\* what the action function of a middleware does: `return next(action)`, or
\* return without calling next
MiddlewareKinds == {"forward", "block"}
\* the chain function that is the reducer step (the first finalMiddleware)
ReducerStepId == 0

\* reducer(state, action)
Reduce(r, s, a) ==
  CASE r = "add" -> (s + a) % NumStates
    [] r = "set" -> a % NumStates
    [] OTHER -> s

\* Array.prototype.indexOf: the first 1-based position of l in ls, 0 when absent
\* (JavaScript's -1)
RECURSIVE IndexOfFrom(_, _, _)
IndexOfFrom(ls, l, i) ==
  IF i > Len(ls) THEN 0
  ELSE IF ls[i] = l THEN i
  ELSE IndexOfFrom(ls, l, i + 1)

IndexOf(ls, l) == IndexOfFrom(ls, l, 1)

\* ls without its element at 1-based position p
RemoveAt(ls, p) == [j \in 1 .. (Len(ls) - 1) |-> IF j < p THEN ls[j] ELSE ls[j + 1]]

\* a mutant of SpliceIndexOf: the unsubscribe function removes nothing
SpliceNothing(ls, l) == ls

\* listeners.splice(listeners.indexOf(listener), 1): when the listener is absent
\* indexOf gives -1 and splice(-1, 1) removes the last element
SpliceIndexOf(ls, l) ==
  IF Len(ls) = 0 THEN ls
  ELSE IF IndexOf(ls, l) = 0 THEN RemoveAt(ls, Len(ls))
  ELSE RemoveAt(ls, IndexOf(ls, l))

\* the composition loop: for (i = n-1; i >= 0; i--) finalMiddleware =
\* newMiddleWares[i](finalMiddleware). Gives [next, final]: next[i] is the
\* function middleware i received, final the last value of finalMiddleware.
RECURSIVE ComposeFrom(_, _, _)
ComposeFrom(i, nxt, final) ==
  IF i < 1 THEN [next |-> nxt, final |-> final]
  ELSE ComposeFrom(i - 1, [nxt EXCEPT ![i] = final], i)

\* a mutant of Compose: every middleware receives the reducer step as its next
ComposeAllToReducer(n) ==
  [next |-> [i \in 1 .. n |-> ReducerStepId],
   final |-> IF n = 0 THEN ReducerStepId ELSE 1]

\* a mutant of Compose: the loop runs forward, so the chain is reversed
RECURSIVE ComposeForwardFrom(_, _, _, _)
ComposeForwardFrom(i, n, nxt, final) ==
  IF i > n THEN [next |-> nxt, final |-> final]
  ELSE ComposeForwardFrom(i + 1, n, [nxt EXCEPT ![i] = final], i)

ComposeForward(n) ==
  ComposeForwardFrom(1, n, [i \in 1 .. n |-> ReducerStepId], ReducerStepId)

Compose(n) == ComposeFrom(n, [i \in 1 .. n |-> ReducerStepId], ReducerStepId)

\* a mutant of getState: the closure gives the state the store was created with
getStateInitial == initialState

\* middlewareAPI.getState
getState == state

\* the sequences over S of length at most n
SeqUpTo(S, n) == UNION {[1 .. m -> S] : m \in 0 .. n}

\* createStore(reducer, initialState, middlewares)
StoreInit ==
  /\ reducer \in ReducerKinds
  /\ initialState \in States
  /\ middlewares \in SeqUpTo(MiddlewareKinds, MaxMiddlewares)
  /\ state = initialState
  /\ listeners = << >>
  /\ nextOf = Compose(Len(middlewares)).next
  /\ finalMiddleware = Compose(Len(middlewares)).final
  /\ unsubs = << >>
  /\ called = {}
  /\ pc = "idle"
  /\ cur = ReducerStepId
  /\ action = 1
  /\ s0 = initialState
  /\ staleAtStart = {}
  /\ entered = << >>
  /\ reducerCalls = 0
  /\ notified = << >>
  /\ k = 0
  /\ len0 = 0
  /\ inListener = FALSE
  /\ ret = << >>
  /\ dispatched = FALSE

\* store code runs on one thread: subscribe and unsubscribe are called between
\* dispatches, or by a listener the notification loop is running
CanCall == pc = "idle" \/ (pc = "notify" /\ inListener)

\* store.subscribe(l): push the listener, return the unsubscribe closure
Subscribe(l) ==
  /\ CanCall
  /\ Len(unsubs) < MaxSubscribes
  /\ listeners' = Append(listeners, l)
  /\ unsubs' = Append(unsubs, l)
  /\ UNCHANGED <<reducer, initialState, middlewares, state, nextOf,
                 finalMiddleware, called, pc, cur, action, s0, staleAtStart,
                 entered, reducerCalls, notified, k, len0, inListener, ret,
                 dispatched>>

\* a call of the h-th unsubscribe closure
Unsubscribe(h) ==
  /\ CanCall
  /\ h \in 1 .. Len(unsubs)
  /\ listeners' = SpliceIndexOf(listeners, unsubs[h])
  /\ called' = called \cup {h}
  /\ UNCHANGED <<reducer, initialState, middlewares, state, nextOf,
                 finalMiddleware, unsubs, pc, cur, action, s0, staleAtStart,
                 entered, reducerCalls, notified, k, len0, inListener, ret,
                 dispatched>>

\* store.dispatch(a) = middlewareAPI.dispatch: finalMiddleware(action), the
\* variable being read when dispatch is called
Dispatch(a) ==
  /\ pc = "idle"
  /\ action' = a
  /\ cur' = finalMiddleware
  /\ pc' = IF finalMiddleware = ReducerStepId THEN "reducer" ELSE "mw"
  /\ s0' = state
  /\ staleAtStart' = {unsubs[h] : h \in called}
  /\ entered' = << >>
  /\ reducerCalls' = 0
  /\ notified' = << >>
  /\ k' = 0
  /\ len0' = 0
  /\ inListener' = FALSE
  /\ dispatched' = TRUE
  /\ UNCHANGED <<reducer, initialState, middlewares, state, listeners, nextOf,
                 finalMiddleware, unsubs, called, ret>>

\* the action function of middleware `cur` is entered: it returns next(action),
\* or returns undefined without calling next
MiddlewareStep ==
  /\ pc = "mw"
  /\ entered' = Append(entered, cur)
  /\ IF middlewares[cur] = "forward"
       THEN /\ cur' = nextOf[cur]
            /\ pc' = IF nextOf[cur] = ReducerStepId THEN "reducer" ELSE "mw"
            /\ ret' = ret
       ELSE /\ cur' = cur
            /\ pc' = "idle"
            /\ ret' = << >>
  /\ UNCHANGED <<reducer, initialState, middlewares, state, listeners, nextOf,
                 finalMiddleware, unsubs, called, action, s0, staleAtStart,
                 reducerCalls, notified, k, len0, inListener, dispatched>>

\* a mutant of ReducerStep: the reducer's result is not stored
ReducerStepNoStore ==
  /\ pc = "reducer"
  /\ state' = state
  /\ reducerCalls' = reducerCalls + 1
  /\ k' = 0
  /\ len0' = Len(listeners)
  /\ pc' = "notify"
  /\ UNCHANGED <<reducer, initialState, middlewares, listeners, nextOf,
                 finalMiddleware, unsubs, called, cur, action, s0,
                 staleAtStart, entered, notified, inListener, ret, dispatched>>

\* the first finalMiddleware: state = reducer(state, action), then
\* listeners.forEach starts
ReducerStep ==
  /\ pc = "reducer"
  /\ state' = Reduce(reducer, state, action)
  /\ reducerCalls' = reducerCalls + 1
  /\ k' = 0
  /\ len0' = Len(listeners)
  /\ pc' = "notify"
  /\ UNCHANGED <<reducer, initialState, middlewares, listeners, nextOf,
                 finalMiddleware, unsubs, called, cur, action, s0,
                 staleAtStart, entered, notified, inListener, ret, dispatched>>

\* one round of listeners.forEach(listener => listener()): the loop visits
\* the indices below the length it started with, skipping those the array no
\* longer has
NotifyStep ==
  /\ pc = "notify"
  /\ k < len0
  /\ k' = k + 1
  /\ IF k + 1 <= Len(listeners)
       THEN /\ notified' = Append(notified, listeners[k + 1])
            /\ inListener' = TRUE
       ELSE /\ notified' = notified
            /\ inListener' = FALSE
  /\ UNCHANGED <<reducer, initialState, middlewares, state, listeners, nextOf,
                 finalMiddleware, unsubs, called, pc, cur, action, s0,
                 staleAtStart, entered, reducerCalls, len0, ret, dispatched>>

\* forEach is over: `return state`, which every forwarding middleware returns
NotifyReturn ==
  /\ pc = "notify"
  /\ k = len0
  /\ ret' = <<state>>
  /\ pc' = "idle"
  /\ inListener' = FALSE
  /\ k' = 0
  /\ len0' = 0
  /\ UNCHANGED <<reducer, initialState, middlewares, state, listeners, nextOf,
                 finalMiddleware, unsubs, called, cur, action, s0,
                 staleAtStart, entered, reducerCalls, notified, dispatched>>

\* the log of the unsubscribe closure a step called (h, or 0 for a step that
\* calls none) and of the listeners the reducer step found, kept beside a
\* step of the store
StoreLog(h) ==
  /\ lastUnsub' = h
  /\ snapshot' = IF pc = "reducer" THEN listeners
                 ELSE IF pc = "idle" /\ pc' # "idle" THEN << >>
                 ELSE snapshot

StoreLogInit == lastUnsub = 0 /\ snapshot = << >>

\* createStore has returned the store
SetupReady == setupPc = "ready" /\ setupIdx = 0

\* createStore is called: state = initialState, listeners = [], finalMiddleware
\* is the reducer step, no middleware has been given its next yet
CreateInit ==
  /\ reducer \in ReducerKinds
  /\ initialState \in States
  /\ middlewares \in SeqUpTo(MiddlewareKinds, MaxMiddlewares)
  /\ state = initialState
  /\ listeners = << >>
  /\ nextOf = [i \in DOMAIN middlewares |-> ReducerStepId]
  /\ finalMiddleware = ReducerStepId
  /\ unsubs = << >>
  /\ called = {}
  /\ pc = "idle"
  /\ cur = ReducerStepId
  /\ action = 1
  /\ s0 = initialState
  /\ staleAtStart = {}
  /\ entered = << >>
  /\ reducerCalls = 0
  /\ notified = << >>
  /\ k = 0
  /\ len0 = 0
  /\ inListener = FALSE
  /\ ret = << >>
  /\ dispatched = FALSE
  /\ setupPc = "map"
  /\ setupIdx = 0

\* middlewares.map: the next middleware(middlewareAPI) call begins, the one
\* before having returned
MapStep ==
  /\ setupPc = "map"
  /\ pc = "idle"
  /\ setupIdx < Len(middlewares)
  /\ setupIdx' = setupIdx + 1
  /\ UNCHANGED <<setupPc, storeVars>>

\* middlewareAPI.dispatch(a) called by a middleware inside its
\* middleware(middlewareAPI) call: finalMiddleware(action), the variable being
\* read now
SetupDispatch(a) ==
  /\ setupPc = "map"
  /\ setupIdx >= 1
  /\ Dispatch(a)
  /\ UNCHANGED setupVars

\* map has returned; the loop starts with i = newMiddleWares.length - 1
MapDone ==
  /\ setupPc = "map"
  /\ pc = "idle"
  /\ setupIdx = Len(middlewares)
  /\ setupPc' = "compose"
  /\ UNCHANGED <<setupIdx, storeVars>>

\* one round of the loop: finalMiddleware = newMiddleWares[i](finalMiddleware)
ComposeStep ==
  /\ setupPc = "compose"
  /\ setupIdx >= 1
  /\ nextOf' = [nextOf EXCEPT ![setupIdx] = finalMiddleware]
  /\ finalMiddleware' = setupIdx
  /\ setupIdx' = setupIdx - 1
  /\ UNCHANGED <<setupPc, reducer, initialState, middlewares, state, listeners,
                 unsubs, called, pc, cur, action, s0, staleAtStart, entered,
                 reducerCalls, notified, k, len0, inListener, ret, dispatched>>

\* the loop is over: return { ...middlewareAPI, subscribe }
CreateReturn ==
  /\ setupPc = "compose"
  /\ setupIdx = 0
  /\ setupPc' = "ready"
  /\ UNCHANGED <<setupIdx, storeVars>>

(* -------------------------------------------------------- combineReducers *)
\* a slice that is undefined (a key the state object does not have reads so)
NoRef == 0
Refs == 1 .. MaxRef
Slices == {NoRef} \cup Refs
\* the keys a state object may have: those of the reducers and one more
StateKeys == 1 .. (MaxReducers + 1)
\* the sub-reducers: return the slice given; return the reference the action
\* carries; give an undefined slice its default and keep any other
SubReducerKinds == {"keep", "set", "default"}
\* reducers[key](slice, action)
SubReduce(kind, slice, a) ==
  CASE kind = "keep" -> slice
    [] kind = "set" -> a
    [] OTHER -> IF slice = NoRef THEN 1 ELSE slice

\* Object.keys(reducers), in insertion order
reducerKeys == [i \in DOMAIN reducers |-> i]

\* state[key]
Get(obj, key) == IF key \in DOMAIN obj THEN obj[key] ELSE NoRef

\* nextState[key] = value
Put(obj, key, value) ==
  [x \in DOMAIN obj \cup {key} |-> IF x = key THEN value ELSE obj[x]]

\* a mutant of HasChanged: the flag forgets the earlier keys
HasChangedLastOnly(hasChanged, new, old) == new # old

\* hasChanged = hasChanged || nextState[key] !== state[key]
HasChanged(hasChanged, new, old) == hasChanged \/ new # old

\* the body of reducerKeys.forEach, for one key
ForEachKey(acc, key, st, a) ==
  LET given == Get(st.obj, key)
      got == SubReduce(reducers[key], given, a)
  IN [nextState |-> Put(acc.nextState, key, got),
      hasChanged |-> HasChanged(acc.hasChanged, got, given),
      given |-> Put(acc.given, key, given),
      got |-> Put(acc.got, key, got),
      calls |-> [acc.calls EXCEPT ![key] = @ + 1]]

\* reducerKeys.forEach(...), from the i-th key on
RECURSIVE ForEachFrom(_, _, _, _)
ForEachFrom(i, acc, st, a) ==
  IF i > Len(reducerKeys) THEN acc
  ELSE ForEachFrom(i + 1, ForEachKey(acc, reducerKeys[i], st, a), st, a)

\* let hasChanged = false; const nextState = {}; the loop
Combined(st, a) ==
  ForEachFrom(1, [nextState |-> << >>, hasChanged |-> FALSE, given |-> << >>,
                  got |-> << >>, calls |-> [x \in DOMAIN reducers |-> 0]],
              st, a)

\* a mutant of ReturnOf: the new object is returned always
ReturnNextState(hasChanged, nextState, st) ==
  [id |-> 1 - st.id, obj |-> nextState]

\* return hasChanged ? nextState : state; nextState is an object of its own
ReturnOf(hasChanged, nextState, st) ==
  IF hasChanged THEN [id |-> 1 - st.id, obj |-> nextState] ELSE st

\* the state objects: an identity and the slices under some of the keys (the
\* combined reducer is called with a state object, never with undefined)
StateObjects ==
  {[id |-> 0, obj |-> f] : f \in UNION {[K -> Slices] : K \in SUBSET StateKeys}}

\* combineReducers(reducers), and a state object to call its result with
CombineInit ==
  /\ reducers \in SeqUpTo(SubReducerKinds, MaxReducers)
  /\ crState \in StateObjects
  /\ crPrev = crState
  /\ crAction = 1
  /\ crGiven = << >>
  /\ crGot = << >>
  /\ crCalls = [x \in DOMAIN reducers |-> 0]
  /\ crCalled = FALSE

\* a call (state, action) => ... of the reducer combineReducers returned, on
\* the state the previous call returned (as a store does)
CombinedReducer(a) ==
  /\ crPrev' = crState
  /\ crAction' = a
  /\ crState' = ReturnOf(Combined(crState, a).hasChanged,
                         Combined(crState, a).nextState, crState)
  /\ crGiven' = Combined(crState, a).given
  /\ crGot' = Combined(crState, a).got
  /\ crCalls' = Combined(crState, a).calls
  /\ crCalled' = TRUE
  /\ UNCHANGED reducers

(* ------------------------------------------ checkJobStatus, startPollingSaga *)
\* call(delay, 1000), in milliseconds
PollDelay == 1000
\* call(delay, 60000), in milliseconds
Timeout == 60000
\* a delay of ms milliseconds, in ticks
DelayTicks(ms) == (ms * TicksPerDelay) \div PollDelay
\* the clock is followed up to MaxNow
MaxNow == DelayTicks(Timeout) + ExtraTicks
\* the statuses of a polling response: the server answers started, succeeded or
\* failed
PollingStatuses == {"STARTED", "SUCCEEDED", "FAILED"}
\* the effects raced by startPollingSaga
Branches == {"response", "cancel", "failed", "timeout"}
\* a put of the action of this type by this saga
PutBy(type, saga) == [type |-> type, by |-> saga]

\* a mutant of CheckJobStatusReturn: checkJobStatus returns the last status
CheckJobStatusReturnsStatus == "SUCCEEDED"

\* checkJobStatus has no return statement: call(checkJobStatus) gives undefined
CheckJobStatusReturn == "undefined"

\* a mutant of HandleStatus: a FAILED status does not end the loop
HandleStatusFailedGoesOn(status) ==
  CASE status = "SUCCEEDED" ->
         [jobSucceeded |-> TRUE,
          puts |-> <<PutBy("HANDLE_POLLING_SUCCESS", "checkJobStatus")>>]
    [] status = "FAILED" ->
         [jobSucceeded |-> FALSE,
          puts |-> <<PutBy("HANDLE_POLLING_FAILURE", "checkJobStatus")>>]
    [] OTHER -> [jobSucceeded |-> FALSE, puts |-> << >>]

\* switch (pollingStatus): what jobSucceeded becomes and what is put
HandleStatus(status) ==
  CASE status = "SUCCEEDED" ->
         [jobSucceeded |-> TRUE,
          puts |-> <<PutBy("HANDLE_POLLING_SUCCESS", "checkJobStatus")>>]
    [] status = "FAILED" ->
         [jobSucceeded |-> TRUE,
          puts |-> <<PutBy("HANDLE_POLLING_FAILURE", "checkJobStatus")>>]
    [] OTHER -> [jobSucceeded |-> FALSE, puts |-> << >>]

\* a mutant of CjsAfterRace: the race leaves checkJobStatus running
CjsNotCancelled(won, at) == IF won = "response" THEN "done" ELSE at

\* the race is over: checkJobStatus has completed, or the race cancels it
CjsAfterRace(won, at) == IF won = "response" THEN "done" ELSE "cancelled"

\* a mutant of TimeoutTicks: the timer is set a tick too long
TimeoutTicksLate == DelayTicks(Timeout) + 1

\* timeout: call(delay, 60000)
TimeoutTicks == DelayTicks(Timeout)

\* a mutant of PollDelayTicks: the delay between two polls is a tick short
PollDelayTicksShort == DelayTicks(PollDelay) - 1

\* yield call(delay, 1000)
PollDelayTicks == DelayTicks(PollDelay)

\* the object the race effect resolves with: the result of the branch that
\* completed first under its key, undefined under the others
RaceResult(won, value) == [b \in Branches |-> IF b = won THEN value ELSE "undefined"]

\* if (failed) yield put({ type: 'HANDLE_POLLING_FAILURE' })
HandleFailure(result) ==
  IF result.failed # "undefined"
    THEN <<PutBy("HANDLE_POLLING_FAILURE", "startPollingSaga")>>
    ELSE << >>

\* the race effect resolves with the branch `won`: the other branches are
\* cancelled and startPollingSaga runs to its end. `puts` are the puts made
\* by the step before the race resolved.
RaceResolve(won, value, puts) ==
  /\ raceResult' = RaceResult(won, value)
  /\ winner' = won
  /\ cjsPc' = CjsAfterRace(won, cjsPc)
  /\ timeoutActive' = FALSE
  /\ sagaPc' = "done"
  /\ lastPuts' = puts \o HandleFailure(RaceResult(won, value))

\* the log of the requests put and the responses taken, kept beside a step
\* of the sagas
SagaLog ==
  LET put == \E j \in DOMAIN lastPuts' :
               lastPuts'[j] = PutBy("POLLING_ACTION_REQUEST", "checkJobStatus")
      elapsed == sinceRequest + (now' - now)
  IN /\ sinceRequest' = IF put THEN 0
                        ELSE IF elapsed > DelayTicks(PollDelay)
                               THEN DelayTicks(PollDelay)
                        ELSE elapsed
     /\ takenSince' = IF put THEN 0
                      ELSE IF lastTaken' # "" THEN takenSince + 1
                      ELSE takenSince

SagaLogInit == sinceRequest = 0 /\ takenSince = 0

SagaInit ==
  /\ now = 0
  /\ sagaPc = "idle"
  /\ cjsPc = "idle"
  /\ jobSucceeded = FALSE
  /\ pollDue = 0
  /\ timeoutDue = 0
  /\ timeoutActive = FALSE
  /\ raceResult = [b \in Branches |-> "undefined"]
  /\ winner = ""
  /\ lastTaken = ""
  /\ lastPuts = << >>

\* startPollingSaga(action) up to its race: checkJobStatus starts and runs to
\* its first take, the two takes of the race wait, the timeout delay starts
StartPollingSaga ==
  /\ sagaPc = "idle"
  /\ sagaPc' = "race"
  /\ jobSucceeded' = FALSE
  /\ lastPuts' = <<PutBy("POLLING_ACTION_REQUEST", "checkJobStatus")>>
  /\ cjsPc' = "take"
  /\ timeoutDue' = now + TimeoutTicks
  /\ timeoutActive' = TRUE
  /\ lastTaken' = ""
  /\ UNCHANGED <<now, pollDue, raceResult, winner>>

\* POLLING_ACTION_RESPONSE is dispatched: checkJobStatus, when it waits in its
\* take, handles the status and starts its delay of 1000 ms
DispatchResponse(status) ==
  /\ sagaPc # "idle"
  /\ IF cjsPc = "take"
       THEN /\ lastTaken' = status
            /\ jobSucceeded' = HandleStatus(status).jobSucceeded
            /\ lastPuts' = HandleStatus(status).puts
            /\ cjsPc' = "delay"
            /\ pollDue' = now + PollDelayTicks
       ELSE /\ lastTaken' = ""
            /\ lastPuts' = << >>
            /\ UNCHANGED <<jobSucceeded, cjsPc, pollDue>>
  /\ UNCHANGED <<now, sagaPc, timeoutDue, timeoutActive, raceResult, winner>>

\* the delay of 1000 ms is over: the loop ends when jobSucceeded, which ends
\* checkJobStatus and with it the race; or it puts the next request and takes
PollDelayFires ==
  /\ cjsPc = "delay"
  /\ now >= pollDue
  /\ pollDue' = 0
  /\ lastTaken' = ""
  /\ IF jobSucceeded
       THEN IF sagaPc = "race"
              THEN RaceResolve("response", CheckJobStatusReturn, << >>)
              ELSE /\ cjsPc' = "done"
                   /\ lastPuts' = << >>
                   /\ UNCHANGED <<raceResult, winner, timeoutActive, sagaPc>>
       ELSE /\ lastPuts' = <<PutBy("POLLING_ACTION_REQUEST", "checkJobStatus")>>
            /\ cjsPc' = "take"
            /\ UNCHANGED <<raceResult, winner, timeoutActive, sagaPc>>
  /\ UNCHANGED <<now, jobSucceeded, timeoutDue>>

\* CANCEL_POLLING is dispatched: the race's take('CANCEL_POLLING') gets it
DispatchCancel ==
  /\ sagaPc # "idle"
  /\ lastTaken' = ""
  /\ IF sagaPc = "race"
       THEN RaceResolve("cancel", "CANCEL_POLLING", << >>)
       ELSE /\ lastPuts' = << >>
            /\ UNCHANGED <<raceResult, winner, cjsPc, timeoutActive, sagaPc>>
  /\ UNCHANGED <<now, jobSucceeded, pollDue, timeoutDue>>

\* POLLING_FAILED is dispatched: the race's take('POLLING_FAILED') gets it
DispatchFailed ==
  /\ sagaPc # "idle"
  /\ lastTaken' = ""
  /\ IF sagaPc = "race"
       THEN RaceResolve("failed", "POLLING_FAILED", << >>)
       ELSE /\ lastPuts' = << >>
            /\ UNCHANGED <<raceResult, winner, cjsPc, timeoutActive, sagaPc>>
  /\ UNCHANGED <<now, jobSucceeded, pollDue, timeoutDue>>

\* the race's delay of 60000 ms is over: delay resolves with true
TimeoutFires ==
  /\ timeoutActive
  /\ now >= timeoutDue
  /\ lastTaken' = ""
  /\ IF sagaPc = "race"
       THEN RaceResolve("timeout", "true", << >>)
       ELSE /\ timeoutActive' = FALSE
            /\ lastPuts' = << >>
            /\ UNCHANGED <<raceResult, winner, cjsPc, sagaPc>>
  /\ UNCHANGED <<now, jobSucceeded, pollDue, timeoutDue>>

\* the clock ticks; a timer that is due runs before the clock goes on
Tick ==
  /\ sagaPc # "idle"
  /\ now < MaxNow
  /\ ~(timeoutActive /\ now >= timeoutDue)
  /\ ~(cjsPc = "delay" /\ now >= pollDue)
  /\ now' = now + 1
  /\ lastTaken' = ""
  /\ lastPuts' = << >>
  /\ UNCHANGED <<sagaPc, cjsPc, jobSucceeded, pollDue, timeoutDue,
                 timeoutActive, raceResult, winner>>

(* ------------------------------------------------- the Lambda@Edge handlers *)
\* a uri is a sequence of characters; CloudFront gives the handlers the path of
\* the requested object, which begins with "/"
UriChars == {"/", "a", ".", "g", "z"}
Uris == {u \in SeqUpTo(UriChars, MaxUriLen) : Len(u) >= 1 /\ u[1] = "/"}
\* '.gz'
GzSuffix == <<".", "g", "z">>

\* if (request.uri): a string is truthy when it is not empty
Truthy(uri) == Len(uri) > 0

\* a mutant of GzipUri: the suffix is added only to a uri that has none
GzipUriOnce(uri) ==
  IF Len(uri) >= 3 /\ SubSeq(uri, Len(uri) - 2, Len(uri)) = GzSuffix
    THEN uri
    ELSE uri \o GzSuffix

\* if (request.uri) request.uri = request.uri + '.gz'
GzipUri(uri) == IF Truthy(uri) THEN uri \o GzSuffix ELSE uri

\* requestUri.endsWith('.gz')
EndsWithGz(uri) ==
  /\ Len(uri) >= Len(GzSuffix)
  /\ SubSeq(uri, Len(uri) - Len(GzSuffix) + 1, Len(uri)) = GzSuffix

\* one header of a response: [{ key, value }]
Header(key, value) == <<[key |-> key, value |-> value]>>

\* response.headers[name] = value
SetHeader(headers, name, value) ==
  [x \in DOMAIN headers \cup {name} |-> IF x = name THEN value ELSE headers[x]]

\* the security headers the response handler sets
SecurityHeaders ==
  [name \in {"strict-transport-security", "x-content-type-options",
             "x-frame-options", "referrer-policy", "x-xss-protection",
             "accept-ranges", "content-security-policy"} |->
     CASE name = "strict-transport-security" ->
            Header("Strict-Transport-Security", "max-age=31536000; includeSubdomains")
       [] name = "x-content-type-options" -> Header("X-Content-Type-Options", "nosniff")
       [] name = "x-frame-options" -> Header("X-Frame-Options", "SAMEORIGIN")
       [] name = "referrer-policy" -> Header("Referrer-Policy", "same-origin")
       [] name = "x-xss-protection" -> Header("X-XSS-Protection", "1; mode=block")
       [] name = "accept-ranges" -> Header("Accept-Ranges", "bytes")
       [] OTHER -> Header("Content-Security-Policy", "frame-ancestors 'self'")]

\* a mutant of SetSecurityHeaders: a header the origin sent is left as it came
SetMissingSecurityHeaders(headers) ==
  [x \in DOMAIN headers \cup DOMAIN SecurityHeaders |->
     IF x \in DOMAIN headers THEN headers[x] ELSE SecurityHeaders[x]]

\* the seven assignments response.headers[...] = [...]
SetSecurityHeaders(headers) ==
  [x \in DOMAIN headers \cup DOMAIN SecurityHeaders |->
     IF x \in DOMAIN SecurityHeaders THEN SecurityHeaders[x] ELSE headers[x]]

\* the try block of the response handler
ResponseHeaders(uri, headers) ==
  SetSecurityHeaders(
    IF EndsWithGz(uri)
      THEN SetHeader(headers, "content-encoding", Header("Content-Encoding", "gzip"))
      ELSE headers)

\* the headers the origin may send: any of these names, with the origin's value
OriginHeaderNames == {"content-type", "content-encoding", "x-frame-options"}
OriginHeaders ==
  UNION {[N -> {Header("From-Origin", "origin")}] : N \in SUBSET OriginHeaderNames}

EdgeInit ==
  /\ edgeCalled = "none"
  /\ eventUri = << >>
  /\ eventHeaders = << >>
  /\ requestOut = << >>
  /\ responseOut = << >>

\* the origin request handler runs on an event with this uri (the handlers
\* keep nothing between invocations: one invocation is followed)
OriginRequest(uri) ==
  /\ edgeCalled = "none"
  /\ edgeCalled' = "request"
  /\ eventUri' = uri
  /\ requestOut' = GzipUri(uri)
  /\ eventHeaders' = << >>
  /\ responseOut' = << >>

\* the origin response handler runs on an event with this request uri and
\* these response headers
OriginResponse(uri, headers) ==
  /\ edgeCalled = "none"
  /\ edgeCalled' = "response"
  /\ eventUri' = uri
  /\ eventHeaders' = headers
  /\ responseOut' = ResponseHeaders(uri, headers)
  /\ requestOut' = << >>

(* --------------------------------------------------------- specifications *)
\* a program that is not the one under check: never created
StoreIdle ==
  /\ reducer = "same" /\ initialState = 0 /\ middlewares = << >> /\ state = 0
  /\ listeners = << >> /\ nextOf = << >> /\ finalMiddleware = ReducerStepId
  /\ unsubs = << >> /\ called = {} /\ pc = "idle" /\ cur = ReducerStepId
  /\ action = 1 /\ s0 = 0 /\ staleAtStart = {} /\ entered = << >>
  /\ reducerCalls = 0 /\ notified = << >> /\ k = 0 /\ len0 = 0
  /\ inListener = FALSE /\ ret = << >> /\ dispatched = FALSE

CombineIdle ==
  /\ reducers = << >> /\ crState = [id |-> 0, obj |-> << >>]
  /\ crPrev = [id |-> 0, obj |-> << >>] /\ crAction = 1 /\ crGiven = << >>
  /\ crGot = << >> /\ crCalls = << >> /\ crCalled = FALSE

\* what a specification leaves alone: the variables of the other programs
exceptStore == <<setupVars, storeLog, combineVars, sagaVars, sagaLog, edgeVars>>
exceptStoreAndLog == <<setupVars, combineVars, sagaVars, sagaLog, edgeVars>>
exceptCombine == <<storeVars, storeLog, setupVars, sagaVars, sagaLog, edgeVars>>
exceptSaga == <<storeVars, storeLog, setupVars, combineVars, edgeVars>>
exceptEdge == <<storeVars, storeLog, setupVars, combineVars, sagaVars, sagaLog>>

InitStore == StoreInit /\ StoreLogInit /\ SetupReady /\ CombineIdle /\ SagaInit /\ SagaLogInit /\ EdgeInit
NextStore ==
  \/ \E l \in Listeners : Subscribe(l) /\ UNCHANGED exceptStore
  \/ \E h \in 1 .. MaxSubscribes : Unsubscribe(h) /\ UNCHANGED exceptStore
  \/ \E a \in Actions : Dispatch(a) /\ UNCHANGED exceptStore
  \/ MiddlewareStep /\ UNCHANGED exceptStore
  \/ ReducerStep /\ UNCHANGED exceptStore
  \/ NotifyStep /\ UNCHANGED exceptStore
  \/ NotifyReturn /\ UNCHANGED exceptStore
SpecStore == InitStore /\ [][NextStore]_vars

\* the store, with the log of its unsubscribe calls and reducer steps
InitListeners == InitStore
NextListeners ==
  \/ \E l \in Listeners :
       Subscribe(l) /\ StoreLog(0) /\ UNCHANGED exceptStoreAndLog
  \/ \E h \in 1 .. MaxSubscribes :
       Unsubscribe(h) /\ StoreLog(h) /\ UNCHANGED exceptStoreAndLog
  \/ \E a \in Actions :
       Dispatch(a) /\ StoreLog(0) /\ UNCHANGED exceptStoreAndLog
  \/ MiddlewareStep /\ StoreLog(0) /\ UNCHANGED exceptStoreAndLog
  \/ ReducerStep /\ StoreLog(0) /\ UNCHANGED exceptStoreAndLog
  \/ NotifyStep /\ StoreLog(0) /\ UNCHANGED exceptStoreAndLog
  \/ NotifyReturn /\ StoreLog(0) /\ UNCHANGED exceptStoreAndLog
SpecListeners == InitListeners /\ [][NextListeners]_vars

\* createStore from its call on, then the store it returns
InitCreate ==
  /\ CreateInit /\ StoreLogInit
  /\ CombineIdle /\ SagaInit /\ SagaLogInit /\ EdgeInit
exceptCreate == <<storeLog, combineVars, sagaVars, sagaLog, edgeVars>>
NextCreate ==
  \/ MapStep /\ UNCHANGED exceptCreate
  \/ \E a \in Actions : SetupDispatch(a) /\ UNCHANGED exceptCreate
  \/ MapDone /\ UNCHANGED exceptCreate
  \/ ComposeStep /\ UNCHANGED exceptCreate
  \/ CreateReturn /\ UNCHANGED exceptCreate
  \/ \E l \in Listeners :
       SetupReady /\ Subscribe(l) /\ UNCHANGED exceptStore
  \/ \E h \in 1 .. MaxSubscribes :
       SetupReady /\ Unsubscribe(h) /\ UNCHANGED exceptStore
  \/ \E a \in Actions :
       SetupReady /\ Dispatch(a) /\ UNCHANGED exceptStore
  \/ MiddlewareStep /\ UNCHANGED exceptStore
  \/ ReducerStep /\ UNCHANGED exceptStore
  \/ NotifyStep /\ UNCHANGED exceptStore
  \/ NotifyReturn /\ UNCHANGED exceptStore
SpecCreate == InitCreate /\ [][NextCreate]_vars

\* the store createStore returns is the store StoreInit describes
CreateGivesStoreInit ==
  SetupReady =>
    /\ nextOf = Compose(Len(middlewares)).next
    /\ finalMiddleware = Compose(Len(middlewares)).final

InitCombine == CombineInit /\ StoreIdle /\ StoreLogInit /\ SetupReady /\ SagaInit /\ SagaLogInit /\ EdgeInit
NextCombine ==
  \/ \E a \in Refs : CombinedReducer(a) /\ UNCHANGED exceptCombine
SpecCombine == InitCombine /\ [][NextCombine]_vars

InitSaga == SagaInit /\ SagaLogInit /\ StoreIdle /\ StoreLogInit /\ SetupReady
            /\ CombineIdle /\ EdgeInit
NextSaga ==
  \/ StartPollingSaga /\ SagaLog /\ UNCHANGED exceptSaga
  \/ \E status \in PollingStatuses : DispatchResponse(status) /\ SagaLog /\ UNCHANGED exceptSaga
  \/ PollDelayFires /\ SagaLog /\ UNCHANGED exceptSaga
  \/ DispatchCancel /\ SagaLog /\ UNCHANGED exceptSaga
  \/ DispatchFailed /\ SagaLog /\ UNCHANGED exceptSaga
  \/ TimeoutFires /\ SagaLog /\ UNCHANGED exceptSaga
  \/ Tick /\ SagaLog /\ UNCHANGED exceptSaga
SpecSaga == InitSaga /\ [][NextSaga]_vars

InitEdge == EdgeInit /\ StoreIdle /\ StoreLogInit /\ SetupReady
            /\ CombineIdle /\ SagaInit /\ SagaLogInit
NextEdge ==
  \/ \E uri \in Uris : OriginRequest(uri) /\ UNCHANGED exceptEdge
  \/ \E uri \in Uris, headers \in OriginHeaders :
       OriginResponse(uri, headers) /\ UNCHANGED exceptEdge
SpecEdge == InitEdge /\ [][NextEdge]_vars

(* ----------------------------------------------------------------- claims *)
\* the listener the step invoked, when the step is a listener invocation
Invokes == Len(notified') > Len(notified)
InvokedListener == notified'[Len(notified')]
\* the elements of a sequence
Range(s) == {s[j] : j \in DOMAIN s}
\* the running (or last) dispatch has returned
Returned == pc = "idle" /\ dispatched
\* some middleware entered by the running (or last) dispatch does not call next
Blocked == \E j \in DOMAIN entered : middlewares[entered[j]] = "block"
AllForward == \A i \in DOMAIN middlewares : middlewares[i] = "forward"

C3_MiddlewaresInArrayOrderThenReducerOnce ==
  AllForward =>
    /\ finalMiddleware = IF Len(middlewares) = 0 THEN ReducerStepId ELSE 1
    /\ \A i \in DOMAIN middlewares :
         nextOf[i] = IF i = Len(middlewares) THEN ReducerStepId ELSE i + 1
    /\ \A j \in DOMAIN entered : entered[j] = j
    /\ pc = "mw" => cur = Len(entered) + 1 /\ reducerCalls = 0
    /\ pc = "reducer" => Len(entered) = Len(middlewares) /\ reducerCalls = 0
    /\ (pc = "notify" \/ Returned) =>
         Len(entered) = Len(middlewares) /\ reducerCalls = 1

\* C3 witness: a dispatch through two forwarding middlewares has returned
C3_Witness ==
  /\ AllForward
  /\ Len(middlewares) = 2
  /\ Returned
  /\ entered = <<1, 2>>
  /\ reducerCalls = 1

Unchanged == {key \in DOMAIN reducers : crGot[key] = crGiven[key]}

\* C5: structural sharing. When every sub-reducer returns the reference it was
\* given, the combined reducer returns the very state object it received; when
\* one returns something else, it returns a new object in which every key whose
\* sub-reducer returned its input still holds the original reference.
C5_StructuralSharing ==
  crCalled =>
    /\ \A key \in DOMAIN reducers : crGiven[key] = Get(crPrev.obj, key)
    /\ Unchanged = DOMAIN reducers => crState = crPrev
    /\ Unchanged # DOMAIN reducers =>
         /\ crState.id # crPrev.id
         /\ \A key \in Unchanged :
              key \in DOMAIN crState.obj /\ crState.obj[key] = Get(crPrev.obj, key)

\* C5 witness: a call changed one slice and kept another, which is defined
C5_Witness ==
  /\ crCalled
  /\ crState.id # crPrev.id
  /\ Unchanged # DOMAIN reducers
  /\ \E key \in Unchanged : crGiven[key] # NoRef /\ crState.obj[key] = crPrev.obj[key]

\* C5 witness of the other case: a call on a state with a slice that no
\* sub-reducer changed returned the object it was given
C5_WitnessSame ==
  /\ crCalled
  /\ Len(reducers) = MaxReducers
  /\ Unchanged = DOMAIN reducers
  /\ crState = crPrev

\* C6: the function combineReducers returns evaluates every reducer with its
\* own slice, once per action: under every key of reducers the returned state
\* holds reducers[key](state[key], action).
C6_EveryReducerEvaluatedOnItsSlice ==
  crCalled =>
    \A key \in DOMAIN reducers :
      /\ crCalls[key] = 1
      /\ Get(crState.obj, key) =
           SubReduce(reducers[key], Get(crPrev.obj, key), crAction)

\* C6 witness: a call with two reducers, the first of which changed its slice
\* while the last did not
C6_Witness ==
  /\ crCalled
  /\ Len(reducers) = 2
  /\ crGot[1] # crGiven[1]
  /\ crGot[2] = crGiven[2]
  /\ crState.obj[1] = crGot[1]

RequestPut == PutBy("POLLING_ACTION_REQUEST", "checkJobStatus")
\* the race was won by a dispatched CANCEL_POLLING or POLLING_FAILED
Interrupted == winner \in {"cancel", "failed"}

\* what C7 says of one step of checkJobStatus
C7_Step ==
  /\ lastTaken' = "SUCCEEDED" =>
       /\ lastPuts' = <<PutBy("HANDLE_POLLING_SUCCESS", "checkJobStatus")>>
       /\ jobSucceeded'
  /\ lastTaken' = "FAILED" =>
       /\ lastPuts' = <<PutBy("HANDLE_POLLING_FAILURE", "checkJobStatus")>>
       /\ jobSucceeded'
  /\ lastTaken' \in PollingStatuses \ {"SUCCEEDED", "FAILED"} =>
       /\ lastPuts' = << >>
       /\ ~jobSucceeded'
       /\ cjsPc' = "delay"
  /\ jobSucceeded =>
       /\ jobSucceeded'
       /\ RequestPut \notin Range(lastPuts')
       /\ cjsPc' \in {"delay", "done", "cancelled"}
  /\ (~jobSucceeded /\ cjsPc = "delay" /\ cjsPc' \notin {"delay", "cancelled"}) =>
       /\ cjsPc' = "take"
       /\ lastPuts' = <<RequestPut>>

\* C7: checkJobStatus puts HANDLE_POLLING_SUCCESS for a SUCCEEDED status and
\* HANDLE_POLLING_FAILURE for a FAILED one, and after either puts no further
\* request and ends; for any other status it puts nothing for the response and,
\* its delay over, puts another POLLING_ACTION_REQUEST and takes again.
C7_StatusHandledAccordingly == [][C7_Step]_vars

\* C7 witness: checkJobStatus has handled a final status and run to its end
C7_Witness ==
  /\ cjsPc = "done"
  /\ jobSucceeded
  /\ winner = "response"

\* C8: the race has one winner: once it has resolved, of cancel, failed and
\* timeout only the branch that completed first is defined, response is
\* undefined also when checkJobStatus ended first, and so is every loser.
C8_RaceHasSingleWinner ==
  /\ sagaPc # "done" => \A b \in Branches : raceResult[b] = "undefined"
  /\ sagaPc = "done" =>
       /\ winner \in Branches
       /\ raceResult.response = "undefined"
       /\ Cardinality({b \in {"cancel", "failed", "timeout"} :
                         raceResult[b] # "undefined"}) <= 1
       /\ \A b \in Branches \ {winner} : raceResult[b] = "undefined"
       /\ winner # "response" => raceResult[winner] # "undefined"

\* C8 witness: the race was won by checkJobStatus ending first
C8_Witness ==
  /\ sagaPc = "done"
  /\ winner = "response"
  /\ \A b \in Branches : raceResult[b] = "undefined"

\* C9: once CANCEL_POLLING or POLLING_FAILED has won the race, checkJobStatus
\* is cancelled wherever it was and puts nothing more, and the timer of
\* 60000 ms is cancelled and changes nothing later.
C9_InterruptCancelsPollingAndTimer ==
  /\ [](Interrupted =>
          /\ cjsPc = "cancelled"
          /\ ~timeoutActive
          /\ raceResult.timeout = "undefined"
          /\ \A j \in DOMAIN lastPuts : lastPuts[j].by # "checkJobStatus")
  /\ [][Interrupted =>
          UNCHANGED <<raceResult, winner, sagaPc, cjsPc, jobSucceeded>>]_vars

\* C9 witness: checkJobStatus was cancelled during its delay of 1000 ms, and
\* the clock has passed the time of both timers
C9_Witness ==
  /\ Interrupted
  /\ pollDue # 0
  /\ now > pollDue
  /\ now > timeoutDue

\* C10: startPollingSaga, started at time 0, has ended when more than 60000 ms
\* have passed, whatever was dispatched, and no POLLING_ACTION_REQUEST is put
\* once the timeout has elapsed.
C10_PollingLimitedToOneMinute ==
  /\ sagaPc = "race" => now <= DelayTicks(Timeout)
  /\ now > DelayTicks(Timeout) => cjsPc \in {"done", "cancelled"}
  /\ RequestPut \in Range(lastPuts) =>
       /\ now <= DelayTicks(Timeout)
       /\ raceResult.timeout = "undefined"

\* C10 witness: nothing was dispatched, the timeout ended the race and the
\* clock went on
C10_Witness ==
  /\ winner = "timeout"
  /\ sagaPc = "done"
  /\ cjsPc = "cancelled"
  /\ pollDue = 0
  /\ ~jobSucceeded
  /\ now > DelayTicks(Timeout)

\* C11: the origin request handler gives callback a request whose uri is the
\* uri of the event followed by '.gz', for every origin request event.
C11_RequestUriGetsGzSuffix ==
  edgeCalled = "request" =>
    /\ Len(requestOut) = Len(eventUri) + 3
    /\ SubSeq(requestOut, 1, Len(eventUri)) = eventUri
    /\ SubSeq(requestOut, Len(eventUri) + 1, Len(requestOut)) = <<".", "g", "z">>

\* C11 witness: the handler ran on a uri that ended with .gz already
C11_Witness ==
  /\ edgeCalled = "request"
  /\ eventUri = <<"/", ".", "g", "z">>
  /\ requestOut = <<"/", ".", "g", "z", ".", "g", "z">>

\* C12: the origin response handler gives callback a response that carries
\* the seven security headers with the handler's values, whatever the request
\* uri and the incoming headers were.
C12_SecurityHeadersAlwaysSet ==
  edgeCalled = "response" =>
    /\ DOMAIN SecurityHeaders \subseteq DOMAIN responseOut
    /\ responseOut["strict-transport-security"][1].value =
         "max-age=31536000; includeSubdomains"
    /\ responseOut["x-content-type-options"][1].value = "nosniff"
    /\ responseOut["x-frame-options"][1].value = "SAMEORIGIN"
    /\ responseOut["referrer-policy"][1].value = "same-origin"
    /\ responseOut["x-xss-protection"][1].value = "1; mode=block"
    /\ responseOut["accept-ranges"][1].value = "bytes"
    /\ responseOut["content-security-policy"][1].value = "frame-ancestors 'self'"
    /\ \A name \in DOMAIN SecurityHeaders : responseOut[name] = SecurityHeaders[name]

\* C12 witness: the handler ran on a uri without .gz and on a response that
\* came with an x-frame-options header of the origin
C12_Witness ==
  /\ edgeCalled = "response"
  /\ ~EndsWithGz(eventUri)
  /\ "x-frame-options" \in DOMAIN eventHeaders
  /\ "content-encoding" \notin DOMAIN responseOut
  /\ responseOut["x-frame-options"] # eventHeaders["x-frame-options"]

PutsRequest == RequestPut \in Range(lastPuts')

\* C14: requests and responses alternate in checkJobStatus: between two
\* consecutive POLLING_ACTION_REQUEST puts of a run exactly one response has
\* been taken and 1000 ms have passed, and while a response is awaited the saga
\* stays blocked and puts no request.
C14_RequestsAndResponsesAlternate ==
  /\ [](cjsPc = "take" => takenSince = 0)
  /\ [][/\ (PutsRequest /\ sagaPc # "idle") =>
             /\ takenSince = 1
             /\ sinceRequest >= DelayTicks(PollDelay)
        /\ cjsPc = "take" =>
             /\ ~PutsRequest
             /\ cjsPc' = "take" \/ cjsPc' = "cancelled" \/ lastTaken' # ""]_vars

\* C14 witness: a second request has been put and its response is awaited
C14_Witness ==
  /\ cjsPc = "take"
  /\ now >= DelayTicks(PollDelay)
  /\ sinceRequest = 0
  /\ takenSince = 0
  /\ lastPuts = <<RequestPut>>

\* C15: a call of the unsubscribe function returned for listener l leaves the
\* listeners array as it is or removes one occurrence of l from it; it never
\* removes another listener, also when the same function is called again.
C15_UnsubscribeRemovesOnlyItsOwnListener ==
  [][lastUnsub' # 0 =>
       \/ listeners' = listeners
       \/ \E j \in DOMAIN listeners :
            /\ listeners[j] = unsubs[lastUnsub']
            /\ listeners' = RemoveAt(listeners, j)]_vars

\* C16: when a dispatch that reached the reducer step has returned, the
\* listeners it invoked are the listeners that were subscribed at the reducer
\* step, each once and in subscription order, whatever the listeners
\* subscribed or unsubscribed meanwhile.
C16_EverySubscribedListenerInvokedOnce ==
  (Returned /\ reducerCalls = 1) => notified = snapshot

\* C17: an action reaches the reducer only after the action function of every
\* middleware has been entered for it, in array order, whether it was
\* dispatched through store.dispatch or through middlewareAPI.dispatch by a
\* middleware during its middleware(middlewareAPI) call.
C17_EveryDispatchPassesEveryMiddleware ==
  (pc = "reducer" \/ reducerCalls > 0) =>
    entered = [j \in 1 .. Len(middlewares) |-> j]

\* C18: the state object a call of the combined reducer returns has exactly
\* the keys of the reducers object, whether or not a sub-reducer changed its
\* slice.
C18_ReturnedStateHasTheReducersKeys ==
  crCalled => DOMAIN crState.obj = DOMAIN reducers

====
